---- MODULE Spec2Model ----
(***************************************************************************)
(* Model of EditingModeExtension.createNew                                 *)
(* (packages/collaboration-extension/src/collaboration.ts): the three      *)
(* menus (editing mode, suggestion, review), the closure variable          *)
(* myForkId, the handler of the shared model's `changed` signal and the    *)
(* continuations of provider.fork() and of the "New suggestion" dialog.    *)
(* The browser is single threaded: every command, handler and continuation *)
(* runs to completion, so each is one action.                              *)
(*                                                                         *)
(* Strings: ids and labels are TLA+ strings.  The name of a changed state  *)
(* field is a sequence of pieces whose concatenation is the name, so that  *)
(* startsWith and slice are computed: <<"fork_", "f1">> is "fork_f1",      *)
(* <<"fork_">> is "fork_" and <<"dirty">> is "dirty".                      *)
(***************************************************************************)
EXTENDS Naturals, Sequences, FiniteSets

\* ---------------------------------------------------------------- bounds
\* Fork ids the provider can hand out or other clients can announce.
ForkIds == {"f1", "f2"}

\* Longest stateChange list of one notification.
MaxBatch == 2

\* Number of commands, notifications and continuations in one session.
MaxSteps == 4

\* Number of merge requests recorded.
MaxMerges == 1

\* ------------------------------------------------------------- constants
\* context.model.sharedModel.rootRoomId
rootRoomId == "room0"

\* const forkPrefix = 'fork_'
forkPrefix == "fork_"

\* Ids that a fork_ entry of a notification can carry: real fork ids, the
\* empty id ("fork_" alone) and the id of the root room.
AnnouncedIdSpace == ForkIds \cup {"", rootRoomId}

\* Names of changed state fields.
Names == {<<forkPrefix, id>> : id \in ForkIds \cup {rootRoomId}}
           \cup {<<forkPrefix>>, <<"dirty">>}

\* The stateChange lists of a notification: the shared model builds one entry
\* per changed key of the state map, so the names of a list are distinct.
Batches ==
  {b \in UNION {[1..n -> Names] : n \in 1..MaxBatch} :
     \A i, j \in 1..Len(b) : b[i] = b[j] => i = j}

VARIABLES
  myForkId,            \* var myForkId
  editingLabel,        \* editingMenu.title.label
  suggestionLabel,     \* suggestionMenu.title.label
  reviewItems,         \* items of reviewMenu
  suggestionCommands,  \* ids registered in the suggestionCommands registry
  suggestionItems,     \* items of suggestionMenu
  connected,           \* argument of the last provider.connectFork call
  forkPromise,         \* "none" | "inflight" | "resolved" | "rejected"
  providerForkId,      \* the id the provider assigns to this client's fork
                       \* (the fork ids are interchangeable: it is "f1")
  forkCalls,           \* number of provider.fork() calls
  dialogs,             \* ids whose "New suggestion" dialog is open
  promptCount,         \* per id, number of "New suggestion" dialogs launched
  announced,           \* ids delivered so far in fork_ entries
  steps,               \* number of commands, handlers and continuations run
  mergeRequests,       \* arguments of the requestDocMerge calls
  lastOp,              \* the last command, handler or continuation that ran
  repeated             \* the last operation is the one before it, run again

vars == <<myForkId, editingLabel, suggestionLabel, reviewItems,
          suggestionCommands, suggestionItems, connected, forkPromise,
          providerForkId, forkCalls, dialogs, promptCount, announced,
          steps, mergeRequests, lastOp, repeated>>

menus == <<editingLabel, suggestionLabel, reviewItems>>
registry == <<suggestionCommands, suggestionItems>>
prompts == <<dialogs, promptCount>>

provider == <<forkPromise, providerForkId, forkCalls>>

Op(name, arg) == [op |-> name, arg |-> arg]

\* Bookkeeping of every action: it is within the session's length and it
\* becomes the last operation.
Ran(name, arg) ==
  /\ steps < MaxSteps
  /\ steps' = steps + 1
  /\ lastOp' = Op(name, arg)
  /\ repeated' = (lastOp = Op(name, arg))

\* ------------------------------------------------------------------ Init
Init ==
  /\ myForkId = ""
  /\ editingLabel = "Editing"
  /\ suggestionLabel = "Root"
  /\ reviewItems = <<>>
  /\ suggestionCommands = {"root"}
  /\ suggestionItems = <<"root">>
  /\ connected = rootRoomId
  /\ forkPromise = "none"
  /\ providerForkId = "f1"
  /\ forkCalls = 0
  /\ dialogs = {}
  /\ promptCount = [id \in AnnouncedIdSpace |-> 0]
  /\ announced = {}
  /\ steps = 0
  /\ mergeRequests = <<>>
  /\ lastOp = Op("init", "")
  /\ repeated = FALSE

\* ------------------------------------------------------ editing commands
\* editingCommands 'editing'
EditingCmd ==
  /\ editingLabel' = "Editing"
  /\ suggestionLabel' = "Root"
  /\ Ran("editing", "")
  /\ UNCHANGED <<myForkId, reviewItems, registry, connected, provider,
                 prompts, announced, mergeRequests>>

\* editingCommands 'suggesting', with the placeholder assignment left out
SuggestingCmdNoPlaceholder ==
  /\ editingLabel' = "Suggesting"
  /\ reviewItems' = <<>>
  /\ IF myForkId = ""
     THEN /\ forkCalls' = forkCalls + 1
          /\ forkPromise' = "inflight"
          /\ UNCHANGED <<myForkId, suggestionLabel, connected>>
     ELSE /\ suggestionLabel' = myForkId
          /\ connected' = myForkId
          /\ UNCHANGED <<myForkId, forkCalls, forkPromise>>
  /\ Ran("suggesting", myForkId)
  /\ UNCHANGED <<registry, providerForkId, prompts, announced, mergeRequests>>

\* editingCommands 'suggesting'
SuggestingCmd ==
  /\ editingLabel' = "Suggesting"
  /\ reviewItems' = <<>>
  /\ IF myForkId = ""
     THEN /\ myForkId' = "pending"
          /\ forkCalls' = forkCalls + 1
          /\ forkPromise' = "inflight"
          /\ UNCHANGED <<suggestionLabel, connected>>
     ELSE /\ suggestionLabel' = myForkId
          /\ connected' = myForkId
          /\ UNCHANGED <<myForkId, forkCalls, forkPromise>>
  /\ Ran("suggesting", myForkId)
  /\ UNCHANGED <<registry, providerForkId, prompts, announced, mergeRequests>>

\* provider.fork().then(newForkId => ...): the promise resolves
ForkResolved ==
  /\ forkPromise = "inflight"
  /\ forkPromise' = "resolved"
  /\ myForkId' = providerForkId
  /\ connected' = providerForkId
  /\ suggestionLabel' = providerForkId
  /\ Ran("forkResolved", providerForkId)
  /\ UNCHANGED <<editingLabel, reviewItems, registry, providerForkId,
                 forkCalls, prompts, announced, mergeRequests>>

\* provider.fork() rejects: .then() has no rejection handler, nothing runs
ForkRejected ==
  /\ forkPromise = "inflight"
  /\ forkPromise' = "rejected"
  /\ Ran("forkRejected", "")
  /\ UNCHANGED <<myForkId, menus, registry, connected, providerForkId,
                 forkCalls, prompts, announced, mergeRequests>>

\* --------------------------------------------------- suggestion commands
\* suggestionCommands 'root', resetting myForkId as well
RootCmdResetsFork ==
  /\ reviewItems' = <<>>
  /\ suggestionLabel' = "Root"
  /\ editingLabel' = "Editing"
  /\ connected' = rootRoomId
  /\ myForkId' = ""
  /\ Ran("root", "")
  /\ UNCHANGED <<registry, provider, prompts, announced, mergeRequests>>

\* suggestionCommands 'root', without reviewMenu.clearItems()
RootCmdKeepsReview ==
  /\ suggestionLabel' = "Root"
  /\ editingLabel' = "Editing"
  /\ connected' = rootRoomId
  /\ Ran("root", "")
  /\ UNCHANGED <<myForkId, reviewItems, registry, provider, prompts, announced,
                 mergeRequests>>

\* suggestionCommands 'root'
RootCmd ==
  /\ reviewItems' = <<>>
  /\ suggestionLabel' = "Root"
  /\ editingLabel' = "Editing"
  /\ connected' = rootRoomId
  /\ Ran("root", "")
  /\ UNCHANGED <<myForkId, registry, provider, prompts, announced, mergeRequests>>

\* suggestionCommands <newForkId>, with the review items added to the ones
\* already there (no reviewMenu.clearItems() before them)
SelectForkKeepsItems(newForkId) ==
  /\ newForkId \in suggestionCommands \ {"root"}
  /\ \E i \in 1..Len(suggestionItems) : suggestionItems[i] = newForkId
  /\ IF myForkId = newForkId
     THEN /\ editingLabel' = "Suggesting"
          /\ reviewItems' = <<>>
     ELSE /\ editingLabel' = "Editing"
          /\ reviewItems' = reviewItems \o <<"merge", "discard">>
  /\ suggestionLabel' = newForkId
  /\ connected' = newForkId
  /\ Ran("select", newForkId)
  /\ UNCHANGED <<myForkId, registry, provider, prompts, announced, mergeRequests>>

\* suggestionCommands <newForkId>, with the ownership test inverted
SelectForkInvertedTest(newForkId) ==
  /\ newForkId \in suggestionCommands \ {"root"}
  /\ \E i \in 1..Len(suggestionItems) : suggestionItems[i] = newForkId
  /\ IF myForkId # newForkId
     THEN /\ editingLabel' = "Suggesting"
          /\ reviewItems' = <<>>
     ELSE /\ editingLabel' = "Editing"
          /\ reviewItems' = <<"merge", "discard">>
  /\ suggestionLabel' = newForkId
  /\ connected' = newForkId
  /\ Ran("select", newForkId)
  /\ UNCHANGED <<myForkId, registry, provider, prompts, announced, mergeRequests>>

\* suggestionCommands <newForkId>: the command registered by _onStateChanged,
\* executed from its item of the suggestion menu.  The "Suggestion" dialog it
\* launches has a single OK button and its continuation only closes it.
SelectFork(newForkId) ==
  /\ newForkId \in suggestionCommands \ {"root"}
  /\ \E i \in 1..Len(suggestionItems) : suggestionItems[i] = newForkId
  /\ IF myForkId = newForkId
     THEN /\ editingLabel' = "Suggesting"
          /\ reviewItems' = <<>>
     ELSE /\ editingLabel' = "Editing"
          /\ reviewItems' = <<"merge", "discard">>
  /\ suggestionLabel' = newForkId
  /\ connected' = newForkId
  /\ Ran("select", newForkId)
  /\ UNCHANGED <<myForkId, registry, provider, prompts, announced, mergeRequests>>

\* ------------------------------------------------------- review commands
\* context.model.sharedModel.currentRoomId: the room of the last connectFork
currentRoomId == connected

HasItem(items, command) == \E i \in 1..Len(items) : items[i] = command

\* reviewCommands 'merge', with the two room ids in the other order
MergeCmdSwappedRooms ==
  /\ HasItem(reviewItems, "merge")
  /\ Len(mergeRequests) < MaxMerges
  /\ mergeRequests' = Append(mergeRequests, <<rootRoomId, currentRoomId>>)
  /\ Ran("merge", connected)
  /\ UNCHANGED <<myForkId, menus, registry, connected, provider, prompts,
                 announced>>

\* reviewCommands 'merge'
MergeCmd ==
  /\ HasItem(reviewItems, "merge")
  /\ Len(mergeRequests) < MaxMerges
  /\ mergeRequests' = Append(mergeRequests, <<currentRoomId, rootRoomId>>)
  /\ Ran("merge", connected)
  /\ UNCHANGED <<myForkId, menus, registry, connected, provider, prompts,
                 announced>>

\* reviewCommands 'discard'
DiscardCmd ==
  /\ HasItem(reviewItems, "discard")
  /\ Ran("discard", connected)
  /\ UNCHANGED <<myForkId, menus, registry, connected, provider, prompts,
                 announced, mergeRequests>>

\* ------------------------------------------------------- _onStateChanged
\* The prefix test without the comparison: any non-empty name passes
StartsWithAnything(name, prefix) == Len(name) >= 1

\* value.name.startsWith(forkPrefix)
StartsWith(name, prefix) == Len(name) >= 1 /\ name[1] = prefix

\* value.name.slice(forkPrefix.length), for a name that starts with forkPrefix
Slice(name) == IF Len(name) = 1 THEN "" ELSE name[2]

\* The guard of the "New suggestion" dialog, without the 'pending' test
PromptGuardNoPendingTest(mine, newForkId) == mine # newForkId

\* The guard of the "New suggestion" dialog, without the own-fork test
PromptGuardNoOwnTest(mine, newForkId) == mine # "pending"

\* if ((myForkId !== 'pending') && (myForkId !== newForkId))
PromptGuard(mine, newForkId) == mine # "pending" /\ mine # newForkId

\* What the handler has changed so far while it walks the stateChange list.
Walk(cmds, items, open, count) ==
  [commands |-> cmds, items |-> items, dialogs |-> open, promptCount |-> count]

\* changes.stateChange.forEach(value => ...), from entry i on.  addCommand of
\* @lumino/commands throws when the id is already registered: the exception
\* leaves forEach and the handler, and the signal's emit loop swallows it, so
\* the entries after it are not processed.
RECURSIVE ForEach(_, _, _, _)
ForEach(stateChange, i, mine, w) ==
  IF i > Len(stateChange) THEN w
  ELSE IF ~StartsWith(stateChange[i], forkPrefix)
       THEN ForEach(stateChange, i + 1, mine, w)
       ELSE LET newForkId == Slice(stateChange[i]) IN
            IF newForkId \in w.commands THEN w
            ELSE ForEach(stateChange, i + 1, mine,
                   Walk(w.commands \cup {newForkId},
                        Append(w.items, newForkId),
                        IF PromptGuard(mine, newForkId)
                          THEN w.dialogs \cup {newForkId} ELSE w.dialogs,
                        IF PromptGuard(mine, newForkId)
                          THEN [w.promptCount EXCEPT ![newForkId] = @ + 1]
                          ELSE w.promptCount))

\* Ids carried by the fork_ entries of a stateChange list.
IdsIn(stateChange) ==
  {Slice(stateChange[i]) :
     i \in {j \in 1..Len(stateChange) : StartsWith(stateChange[j], forkPrefix)}}

\* A stateChange list none of whose names has the fork_ prefix.
NoForkName(stateChange) ==
  \A i \in 1..Len(stateChange) : stateChange[i][1] # "fork_"

\* What kind of list a notification delivered, as recorded in lastOp.
ListKind(stateChange) == IF NoForkName(stateChange) THEN "plain" ELSE "fork"

\* _onStateChanged(sender, changes) with changes.stateChange present.  The
\* provider creates this client's fork only when fork() has been called, so
\* its id is not announced before that.
StateChanged(stateChange) ==
  /\ providerForkId \in IdsIn(stateChange) => forkCalls > 0
  /\ \E w \in {ForEach(stateChange, 1, myForkId,
                        Walk(suggestionCommands, suggestionItems, dialogs,
                             promptCount))} :
        /\ suggestionCommands' = w.commands
        /\ suggestionItems' = w.items
        /\ dialogs' = w.dialogs
        /\ promptCount' = w.promptCount
  /\ announced' = announced \cup IdsIn(stateChange)
  /\ Ran("stateChanged", ListKind(stateChange))
  /\ UNCHANGED <<myForkId, menus, connected, provider, mergeRequests>>

\* _onStateChanged(sender, changes) with changes.stateChange undefined
StateChangedWithoutList ==
  /\ Ran("otherChange", "")
  /\ UNCHANGED <<myForkId, menus, registry, connected, provider, prompts,
                 announced, mergeRequests>>

\* The 'Open' continuation without the assignment of the editing label
DialogOpenKeepsLabel(newForkId) ==
  /\ newForkId \in dialogs
  /\ dialogs' = dialogs \ {newForkId}
  /\ connected' = newForkId
  /\ suggestionLabel' = newForkId
  /\ reviewItems' = <<"merge", "discard">>
  /\ Ran("open", newForkId)
  /\ UNCHANGED <<myForkId, editingLabel, registry, provider, promptCount,
                 announced, mergeRequests>>

\* dialog.launch().then(resp => ...) with resp.button.label === 'Open'
DialogOpen(newForkId) ==
  /\ newForkId \in dialogs
  /\ dialogs' = dialogs \ {newForkId}
  /\ connected' = newForkId
  /\ suggestionLabel' = newForkId
  /\ editingLabel' = "Editing"
  /\ reviewItems' = <<"merge", "discard">>
  /\ Ran("open", newForkId)
  /\ UNCHANGED <<myForkId, registry, provider, promptCount, announced,
                 mergeRequests>>

\* The 'Discard' continuation, taking the suggestion off the menu as well
DialogDiscardRemovesItem(newForkId) ==
  /\ newForkId \in dialogs
  /\ dialogs' = dialogs \ {newForkId}
  /\ suggestionCommands' = suggestionCommands \ {newForkId}
  /\ suggestionItems' = SelectSeq(suggestionItems, LAMBDA c : c # newForkId)
  /\ Ran("dismiss", newForkId)
  /\ UNCHANGED <<myForkId, menus, connected, provider, promptCount,
                 announced, mergeRequests>>

\* dialog.launch().then(resp => ...) with the 'Discard' button
DialogDiscard(newForkId) ==
  /\ newForkId \in dialogs
  /\ dialogs' = dialogs \ {newForkId}
  /\ Ran("dismiss", newForkId)
  /\ UNCHANGED <<myForkId, menus, registry, connected, provider, promptCount,
                 announced, mergeRequests>>

\* ------------------------------------------------------------------ Next
Next ==
  \/ EditingCmd
  \/ SuggestingCmd
  \/ ForkResolved
  \/ ForkRejected
  \/ RootCmd
  \/ \E id \in AnnouncedIdSpace : SelectFork(id)
  \/ MergeCmd
  \/ DiscardCmd
  \/ \E stateChange \in Batches : StateChanged(stateChange)
  \/ StateChangedWithoutList
  \/ \E id \in AnnouncedIdSpace : DialogOpen(id)
  \/ \E id \in AnnouncedIdSpace : DialogDiscard(id)

Spec == Init /\ [][Next]_vars

TypeOK ==
  /\ myForkId \in {"", "pending"} \cup ForkIds
  /\ editingLabel \in {"Editing", "Suggesting"}
  /\ suggestionCommands \subseteq {"root"} \cup AnnouncedIdSpace
  /\ dialogs \subseteq AnnouncedIdSpace
  /\ forkPromise \in {"none", "inflight", "resolved", "rejected"}

\* ================================================================ claims
\* The client has a fork of its own: myForkId holds a real fork id.
HasOwnFork == myForkId \notin {"", "pending"}

\* C1 (P4 review exclusivity): whenever Merge is offered in the review menu,
\* the room the client is connected to is not its own fork.
C1_ReviewExclusivity ==
  HasItem(reviewItems, "merge") => ~(HasOwnFork /\ connected = myForkId)

\* C2 (P1 single active fork): at most one fork() call is issued however
\* often 'Suggesting' is selected (so also when no 'Root' intervenes),
\* myForkId is non-empty once fork() has resolved, and a fork() call is issued
\* only in a state where myForkId = "", never while it is "pending".
C2_SingleActiveFork ==
  /\ [](forkCalls <= 1 /\ (forkPromise = "resolved" => myForkId # ""))
  /\ [][forkCalls' # forkCalls =>
          myForkId = "" /\ myForkId' = "pending" /\ forkCalls' = forkCalls + 1]_vars

\* C2 witness: 'Suggesting' was selected again while the first fork() is
\* still unresolved.
C2_Witness ==
  /\ lastOp = Op("suggesting", "pending")
  /\ forkPromise = "inflight"
  /\ forkCalls = 1

\* C3 (Scenario B): every fork id that is not the client's own fork has been
\* prompted for exactly once as soon as it has been announced, whatever the
\* mode at its first announcement, and not at all before.
C3_PromptExactlyOnce ==
  \A f \in ForkIds \ {providerForkId} :
    promptCount[f] = IF f \in announced THEN 1 ELSE 0

\* C4 (fork-creation failure rollback): right after fork() rejects the client
\* is back in Editing with myForkId = "".
C4_ForkFailureRollback ==
  lastOp.op = "forkRejected" => myForkId = "" /\ editingLabel = "Editing"

\* C5 (Scenario A): right after fork() resolves with id f, myForkId = f, the
\* connection target is f and the mode is SuggestionActive (editing label
\* 'Suggesting', suggestion label f), whatever was processed in between.
C5_ForkResolution ==
  lastOp.op = "forkResolved" =>
    /\ myForkId = providerForkId
    /\ connected = providerForkId
    /\ editingLabel = "Suggesting"
    /\ suggestionLabel = providerForkId

\* C6 (connect targets are valid rooms): the argument of the last connectFork
\* call is rootRoomId, the id fork() returned or an announced fork id; it is
\* never the empty string nor the placeholder "pending".
C6_ConnectTargetsValid ==
  \/ connected = rootRoomId
  \/ /\ connected \in ForkIds
     /\ \/ connected \in announced
        \/ forkPromise = "resolved" /\ connected = providerForkId

\* myForkId steps "" -> "pending" (a fork() call) or "pending" -> <forkId>
\* (the fork() promise resolves).
ForkIdLifecycleStep ==
  \/ myForkId = "" /\ myForkId' = "pending" /\ lastOp'.op = "suggesting"
  \/ myForkId = "pending" /\ myForkId' = providerForkId
       /\ lastOp'.op = "forkResolved"

\* C7 as claimed (lifecycle of myForkId): myForkId changes only along the
\* lifecycle or by the reset of 'Root', and every 'Root' command leaves it "".
C7_LifecycleWithRootReset ==
  [][/\ myForkId' # myForkId =>
          ForkIdLifecycleStep \/ (lastOp'.op = "root" /\ myForkId' = "")
     /\ lastOp'.op = "root" => myForkId' = ""]_vars

\* C7 as amended: myForkId changes only along the lifecycle; no operation,
\* 'Root' included, resets it or changes it otherwise.
C7_Lifecycle ==
  [][/\ myForkId' # myForkId => ForkIdLifecycleStep
     /\ lastOp'.op = "root" => myForkId' = myForkId]_vars

\* C7 witness: 'Root' has run while the client has a fork of its own, and the
\* fork id is still there.
C7_Witness == lastOp.op = "root" /\ HasOwnFork

\* C8 (Scenario F): right after the 'Root' command the connection target is
\* rootRoomId, the labels are 'Editing' and 'Root', and the review menu is
\* empty, whatever the mode was before.
C8_Root ==
  lastOp.op = "root" =>
    /\ connected = rootRoomId
    /\ editingLabel = "Editing"
    /\ suggestionLabel = "Root"
    /\ reviewItems = <<>>

\* C8 witness: 'Root' has run after a merge request, that is from a review
\* with Merge and Discard on offer.
C8_Witness == lastOp.op = "root" /\ mergeRequests # <<>>

\* C9 (malformed announcements are ignored): the empty id and rootRoomId are
\* never registered as suggestions and never prompted for.
C9_MalformedIgnored ==
  \A id \in {"", rootRoomId} :
    /\ id \notin suggestionCommands
    /\ ~HasItem(suggestionItems, id)
    /\ promptCount[id] = 0
    /\ id \notin dialogs

\* C10 (P3 ownership classification stability): once myForkId is a fork id f
\* it stays f, no step raises a discovery prompt for f, and a selection of f
\* from the suggestion menu is handled as the client's own suggestion.
C10_OwnershipStable ==
  [][HasOwnFork =>
       /\ myForkId' = myForkId
       /\ promptCount'[myForkId] = promptCount[myForkId]
       /\ (dialogs' \ dialogs) \cap {myForkId} = {}
       /\ lastOp' = Op("select", myForkId) =>
            /\ editingLabel' = "Suggesting"
            /\ reviewItems' = <<>>
            /\ connected' = myForkId]_vars

\* C10 witness: the client's own fork f was announced and then selected from
\* the suggestion menu, with no prompt ever raised for f.
C10_Witness ==
  /\ HasOwnFork
  /\ lastOp = Op("select", myForkId)
  /\ myForkId \in announced
  /\ promptCount[myForkId] = 0

\* Number of items of a menu that run the given command.
ItemCount(items, command) ==
  Cardinality({i \in 1..Len(items) : items[i] = command})

\* C11 (duplicate announcement is an idempotent no-op): every announced fork
\* id is a selectable suggestion that appears exactly once, also when it was
\* delivered in a notification together with an id that was already known.
C11_DuplicateAnnouncementNoOp ==
  \A f \in ForkIds \cap announced :
    f \in suggestionCommands /\ ItemCount(suggestionItems, f) = 1

\* C12 (Scenario D): right after fork f is selected from the suggestion menu
\* the client is connected to f with suggestion label f; if f is its own fork
\* the editing label is 'Suggesting' and the review menu is empty, otherwise
\* the editing label is 'Editing' and the review menu is Merge, Discard.
C12_SelectFork ==
  lastOp.op = "select" =>
    /\ connected = lastOp.arg
    /\ suggestionLabel = lastOp.arg
    /\ IF myForkId = lastOp.arg
       THEN editingLabel = "Suggesting" /\ reviewItems = <<>>
       ELSE editingLabel = "Editing" /\ reviewItems = <<"merge", "discard">>

\* C12 witness: the client, owner of a fork, has selected its own fork from
\* the suggestion menu.
C12_Witness ==
  /\ lastOp.op = "select"
  /\ lastOp.arg = myForkId
  /\ HasOwnFork

\* C13 (Scenario C): right after 'Open' is answered for fork f the connection
\* target is f, the mode is Reviewing(f) (labels 'Editing' and f) and the
\* review menu is Merge, Discard, whatever ran since the prompt was raised.
C13_Open ==
  lastOp.op = "open" =>
    /\ connected = lastOp.arg
    /\ suggestionLabel = lastOp.arg
    /\ editingLabel = "Editing"
    /\ reviewItems = <<"merge", "discard">>

\* C13 witness: 'Open' was answered for a foreign fork by a client that has
\* selected 'Suggesting' in the meantime (its fork() is in flight or done).
C13_Witness ==
  /\ lastOp.op = "open"
  /\ lastOp.arg \in ForkIds \ {providerForkId}
  /\ forkCalls = 1

\* The client is reviewing a foreign fork: connected to a fork that is not its
\* own, with the labels and review actions of Reviewing.
Reviewing ==
  /\ connected \in ForkIds
  /\ connected # myForkId
  /\ suggestionLabel = connected
  /\ editingLabel = "Editing"
  /\ reviewItems = <<"merge", "discard">>

\* C14 (Scenario E): 'Merge' executed while reviewing foreign fork f appends
\* exactly one merge request, with arguments (f, rootRoomId), and leaves
\* myForkId, the labels, the review menu and the connection target as they are.
C14_Merge ==
  [][Reviewing /\ lastOp'.op = "merge" =>
       /\ mergeRequests' = Append(mergeRequests, <<connected, rootRoomId>>)
       /\ UNCHANGED <<myForkId, menus, connected>>]_vars

\* C14 witness: a merge request was issued from a review of a foreign fork.
C14_Witness ==
  /\ lastOp.op = "merge"
  /\ lastOp.arg = connected
  /\ Reviewing
  /\ mergeRequests = <<<<connected, rootRoomId>>>>

\* The last operation is a connecting command: 'Root', 'Suggesting' of a
\* client that has its fork, or an entry of the suggestion menu.
ConnectingCommand(o) ==
  \/ o.op \in {"root", "select"}
  \/ o.op = "suggesting" /\ o.arg \notin {"", "pending"}

\* C15 (P2 idempotent reconnection): a connecting command that is executed
\* again right after itself changes neither the connection target, nor the
\* labels, nor the review menu.
C15_IdempotentReconnection ==
  [][repeated' /\ ConnectingCommand(lastOp') =>
       UNCHANGED <<connected, menus>>]_vars

\* C15 witness: the entry of a foreign fork was selected twice in a row.
C15_Witness ==
  /\ repeated
  /\ lastOp.op = "select"
  /\ lastOp.arg \in ForkIds
  /\ lastOp.arg # myForkId

\* C16 (own fork is never prompted): no discovery prompt is raised for the
\* id the client's own fork() call returns, before or after fork() resolves,
\* and a notification changes neither myForkId, the labels, the review menu
\* nor the connection target.
C16_OwnForkNeverPrompted ==
  [][/\ promptCount'[providerForkId] = 0
     /\ providerForkId \notin dialogs'
     /\ lastOp'.op = "stateChanged" =>
          UNCHANGED <<myForkId, menus, connected>>]_vars

\* C16 witness: the client's own fork was announced while fork() was still
\* unresolved and has become selectable.
C16_Witness ==
  /\ lastOp.op = "stateChanged"
  /\ forkPromise = "inflight"
  /\ providerForkId \in announced
  /\ HasItem(suggestionItems, providerForkId)

\* The client state a notification can touch or that a claim observes.
clientState == <<myForkId, menus, connected, registry, prompts, mergeRequests>>

\* C17 (non-announcement changes have no effect): a notification without a
\* stateChange list, or one whose names all lack the fork_ prefix, leaves
\* myForkId, labels, review menu, connection target, suggestions and prompts
\* unchanged; any notification registers only ids of its fork_ names, one
\* menu item per registered id.
C17_NonAnnouncementNoEffect ==
  [][/\ lastOp'.op = "otherChange" => UNCHANGED clientState
     /\ lastOp' = Op("stateChanged", "plain") => UNCHANGED clientState
     /\ lastOp'.op = "stateChanged" =>
          /\ suggestionCommands' \ suggestionCommands \subseteq announced'
          /\ Len(suggestionItems') - Len(suggestionItems) =
               Cardinality(suggestionCommands' \ suggestionCommands)]_vars

\* C17 witness: notifications were delivered, the last one with a stateChange
\* list, and none of them had a fork_ name: nothing is registered or prompted.
C17_Witness ==
  /\ lastOp = Op("stateChanged", "plain")
  /\ announced = {}
  /\ suggestionCommands = {"root"}
  /\ dialogs = {}

\* C18 (Discard on the discovery prompt is a no-op): answering 'Discard' for
\* fork f leaves the connection target, the labels, the review menu and
\* myForkId unchanged, and f stays selectable in the suggestion menu.
C18_PromptDiscardNoOp ==
  [][lastOp'.op = "dismiss" =>
       /\ UNCHANGED <<connected, menus, myForkId>>
       /\ lastOp'.arg \in suggestionCommands'
       /\ HasItem(suggestionItems', lastOp'.arg)]_vars

\* C18 witness: 'Discard' was answered for a foreign fork while the client
\* was reviewing another room.
C18_Witness ==
  /\ lastOp.op = "dismiss"
  /\ lastOp.arg \in ForkIds
  /\ HasItem(suggestionItems, lastOp.arg)
  /\ reviewItems # <<>>

\* C19 (displayed room matches connected room): the suggestion label is
\* 'Root' exactly when the client is connected to rootRoomId, and otherwise
\* it is the id of the room the client is connected to.
C19_LabelMatchesRoom ==
  /\ suggestionLabel = "Root" <=> connected = rootRoomId
  /\ connected # rootRoomId => suggestionLabel = connected

\* C20 (mode agrees with ownership of the connected room): connected to its
\* own fork the client shows 'Suggesting'; connected to rootRoomId it shows
\* 'Editing' and offers no review action.
C20_ModeAgreesWithOwnership ==
  /\ HasOwnFork /\ connected = myForkId => editingLabel = "Suggesting"
  /\ connected = rootRoomId => editingLabel = "Editing" /\ reviewItems = <<>>

====
